---- MODULE Spec2Model ----
(***************************************************************************)
(* Model of rltf's off-policy agent: src/rltf/agents/agent.py (Agent,      *)
(* OffPolicyAgent) and the graph names of src/rltf/models/dqn.py.          *)
(*                                                                         *)
(* One process builds an agent (fresh, or restored from the checkpoint in  *)
(* model_dir), calls train(), which runs the environment thread (_run_env) *)
(* and the network thread (_train_model) synchronised by two               *)
(* threading.Event objects, and returns.  The process may then be started  *)
(* again on the same model_dir.                                            *)
(***************************************************************************)
EXTENDS Integers, Sequences, FiniteSets, TLC

\* ------------------------------------------------------------------ bounds
MaxStop     == 3    \* stop_step is 1, 2 or MaxStop; start_train is 0, 1 or MaxStop - 1
MaxFreq     == 2    \* the frequencies are 1 or MaxFreq (save_freq also 0)
MaxEvalLen  == 1    \* eval_len is 0 or MaxEvalLen
MaxRestarts == 1    \* how often the process is started again on the same model_dir
InputCounter == 2   \* value of t_tf in a checkpoint found by the first process

VARIABLES
  cfg,            \* the constructor arguments (agent.py 42-58), never mutated
  ckpt,           \* the checkpoint in model_dir, or NoCkpt
  mon_ckpt,       \* the monitor statistics saved in model_dir
  main,           \* position of the main thread
  restarts,       \* number of process restarts so far
  graph,          \* names of the operations of the TF graph of this process
  t_inc_target,   \* name of the operation self.t_tf_inc is bound to
  start_step,     \* self.start_step (0: None)
  learn_started,  \* self.learn_started (None counts as FALSE, as in `if`)
  t_tf,           \* value of the TF variable t_tf
  agent_net,      \* primary parameters: number of gradient updates applied
  target_net,     \* target parameters: the primary version they were copied from
  replay_buf,     \* sequence of the loop steps whose transition was stored
  env_steps,      \* env.step calls seen by the monitor in train mode
  eval_runs,      \* self.eval_runs
  mode,           \* self.env_monitor.mode
  act_chosen,     \* self._act_chosen
  train_done,     \* self._train_done
  env_pc,         \* position of env_thread
  env_t,          \* loop variable t of _run_env
  done,           \* local `done` of _run_env
  action,         \* how the local `action` of _run_env was chosen
  eval_t,         \* loop variable t of eval()
  nn_pc,          \* position of net_thread
  nn_t,           \* loop variable t of _train_model
  feed,           \* size of the replay buffer when the feed_dict was composed
  sigs,           \* history: the Event.set() calls, in order
  acks,           \* history: number of Event.clear() calls of each waiter
  trained,        \* history: the loop steps at which train_op was run, in order
  synced,         \* history: the loop steps at which update_target was run, in order
  failed,         \* history: the threads that ended with an exception
  env_obs,        \* what the last env.reset() / env.step() call returned
  obs,            \* local `obs` of _run_env
  eval_obs,       \* local `obs` of eval()
  reset_calls,    \* history: the calls made by reset() since the last env.step()
  saved,          \* history: the writes of save(), in order
  evaled          \* history: the evaluation passes and their steps, in order

procVars  == <<graph, t_inc_target, start_step, learn_started, t_tf, agent_net,
               target_net, replay_buf, env_steps, eval_runs, mode>>
diskVars  == <<ckpt, mon_ckpt>>
mainVars  == <<main, restarts>>
eventVars == <<act_chosen, train_done>>
envVars   == <<env_pc, env_t, done, action, eval_t>>
nnVars    == <<nn_pc, nn_t, feed>>
histVars  == <<sigs, acks, trained, synced, failed>>
obsVars   == <<env_obs, obs, eval_obs, reset_calls>>
logVars   == <<saved, evaled>>
vars      == <<cfg, diskVars, mainVars, procVars, eventVars, envVars, nnVars, histVars,
               obsVars, logVars>>


\* ------------------------------------------------------------ configuration
\* The arguments of Agent.__init__ (agent.py 16-58); update_target_freq is the
\* attribute _train_model reads at agent.py 440.
GridConfigs ==
  { c \in [ stop_step : {1, 2, MaxStop}, start_train : {0, 1, MaxStop - 1},
            train_freq : {1, MaxFreq}, update_target_freq : {1, MaxFreq},
            save_freq : {0, 1, MaxFreq}, eval_freq : {1, MaxFreq},
            eval_len : {0, MaxEvalLen} ] :
      c.stop_step > c.start_train }

\* The configuration of the spec's scenario: training at 12, 16, 20, sync at 20.
ScenarioConfig ==
  [ stop_step |-> 20, start_train |-> 10, train_freq |-> 4, update_target_freq |-> 10,
    save_freq |-> 0, eval_freq |-> 1, eval_len |-> 0 ]

\* A run with two evaluation passes of two steps each, at loop steps 2 and 4.
EvalConfig ==
  [ stop_step |-> 4, start_train |-> 2, train_freq |-> 2, update_target_freq |-> 4,
    save_freq |-> 0, eval_freq |-> 2, eval_len |-> 2 ]

\* A run without evaluation whose eval_freq could not be a modulus.
NoEvalConfig ==
  [ stop_step |-> 2, start_train |-> 1, train_freq |-> 1, update_target_freq |-> 1,
    save_freq |-> 0, eval_freq |-> 0, eval_len |-> 0 ]

Configs == GridConfigs \cup {ScenarioConfig, EvalConfig, NoEvalConfig}

\* ------------------------------------------------------------------- graph
\* Names of the operations the fresh branch of build() creates: agent.py 96, 97,
\* 100 (tf.summary.merge_all names its op Merge/MergeSummary) and dqn.py 59-65.
BuiltGraph ==
  {"t_tf", "t_inc_op", "Merge/MergeSummary", "train_op", "update_target", "a_train", "a_eval"}

\* A meta graph that differs from BuiltGraph only in carrying the increment
\* operation under the name the restore branch asks for.
ForeignGraph == (BuiltGraph \ {"t_inc_op"}) \cup {"t_tf_inc"}

Tensor(op)    == [kind |-> "tensor", op |-> op, out |-> 0]     \* "<op>:0"
Operation(op) == [kind |-> "operation", op |-> op, out |-> 0]

\* The handles the restore branch looks up, in order: agent.py 124, 125,
\* model.restore -> dqn.py 100, 101, agent.py 138.
RestoreLookups ==
  << Tensor("t_tf"), Operation("t_tf_inc"), Tensor("a_train"), Tensor("a_eval"),
     Tensor("Merge/MergeSummary") >>

\* graph.get_tensor_by_name / graph.get_operation_by_name: KeyError unless the
\* graph has an operation of that name (every operation here has one output).
Resolves(g, h) == h.op \in g /\ h.out = 0

AllResolve(g) == \A i \in DOMAIN RestoreLookups : Resolves(g, RestoreLookups[i])

\* --------------------------------------------------------------- checkpoint
NoCkpt == [present |-> FALSE]

\* tf.train.Saver.save(sess, model_dir, global_step=t_tf): the meta graph and
\* the values of all variables; `step` records the loop step of the writer.
Checkpoint(g, t, a, tg, step) ==
  [present |-> TRUE, graph |-> g, t_tf |-> t, agent_net |-> a, target_net |-> tg, step |-> step]

\* What model_dir can hold when the first process starts: nothing, or a
\* checkpoint whose meta graph resolves (written by no step of this run: step 0).
InputCkpts ==
  {NoCkpt, Checkpoint(ForeignGraph, InputCounter, 1, 0, 0)}

\* ------------------------------------------------------------- environment
\* What env.reset() (kind "reset", done FALSE) or env.step() (kind "step")
\* returned: m is the monitor mode of the call and t the number of steps of
\* that mode made so far (agent.py 170, 324, 329, 404).
Obs(kind, m, t, d) == [kind |-> kind, mode |-> m, t |-> t, done |-> d]

NoObs == [kind |-> "none"]

\* ------------------------------------------------------------------- state
\* Agent.__init__ / OffPolicyAgent.__init__ (agent.py 42-71, 289-294), and no
\* thread running.
Unbuilt ==
  /\ graph = {} /\ t_inc_target = "None"
  /\ start_step = 0 /\ learn_started = FALSE
  /\ t_tf = 0 /\ agent_net = 0 /\ target_net = 0
  /\ replay_buf = << >> /\ env_steps = 0
  /\ eval_runs = -1 /\ mode = "t"
  /\ act_chosen = FALSE /\ train_done = FALSE
  /\ env_pc = "idle" /\ env_t = 0 /\ done = FALSE /\ action = "none" /\ eval_t = 0
  /\ nn_pc = "idle" /\ nn_t = 0 /\ feed = 0
  /\ sigs = << >> /\ acks = [act_chosen |-> 0, train_done |-> 0]
  /\ trained = << >> /\ synced = << >> /\ failed = {}
  /\ env_obs = NoObs /\ obs = NoObs /\ eval_obs = NoObs /\ reset_calls = << >>
  /\ saved = << >> /\ evaled = << >>

Init ==
  /\ cfg \in Configs
  /\ ckpt \in InputCkpts
  /\ mon_ckpt = 0
  /\ main = "unbuilt" /\ restarts = 0
  /\ Unbuilt

\* ------------------------------------------------------------------- build
\* agent.py 81-82: restore iff model_dir holds a checkpoint.
Restore == ckpt.present

\* Mutant of UpdateTarget: the target is given the initial parameters.
UpdateTarget_stale(primary) == 0

\* dqn.py 104-106: initialize() runs update_target, copying primary to target.
UpdateTarget(primary) == primary

\* agent.py 85-112, 145: the fresh branch.  The initializers give the two
\* networks unrelated values (target: -1); initialize() then copies the primary.
BuildFresh ==
  /\ main = "unbuilt" /\ ~Restore
  /\ graph' = BuiltGraph
  /\ t_inc_target' = "t_inc_op"
  /\ t_tf' = 1
  /\ start_step' = 1
  /\ learn_started' = FALSE
  /\ agent_net' = 0
  /\ target_net' = UpdateTarget(0)
  /\ main' = "ready"
  /\ UNCHANGED <<cfg, obsVars, logVars, diskVars, restarts, replay_buf, env_steps, eval_runs, mode,
                 eventVars, envVars, nnVars, histVars>>

\* agent.py 141: start_step is the restored value of t_tf.
RestoredStartStep(c) == c.t_tf

\* agent.py 115-142, 145: the restore branch when every lookup resolves.
BuildRestore ==
  /\ main = "unbuilt" /\ Restore /\ AllResolve(ckpt.graph)
  /\ graph' = ckpt.graph
  /\ t_inc_target' = RestoreLookups[2].op
  /\ t_tf' = ckpt.t_tf
  /\ agent_net' = ckpt.agent_net
  /\ target_net' = ckpt.target_net
  /\ start_step' = RestoredStartStep(ckpt)
  /\ learn_started' = TRUE
  /\ main' = "ready"
  /\ UNCHANGED <<cfg, obsVars, logVars, diskVars, restarts, replay_buf, env_steps, eval_runs, mode,
                 eventVars, envVars, nnVars, histVars>>

\* agent.py 124-138, dqn.py 100-101: a lookup raises KeyError and build() with it.
BuildRestoreFails ==
  /\ main = "unbuilt" /\ Restore /\ ~AllResolve(ckpt.graph)
  /\ main' = "build_failed"
  /\ UNCHANGED <<cfg, obsVars, logVars, diskVars, restarts, procVars, eventVars, envVars, nnVars,
                 histVars>>

\* -------------------------------------------------------------------- train
Sig(ev, t, by) == [ev |-> ev, t |-> t, by |-> by]

\* Mutant of PreSetTrainDone: train() leaves train_done cleared.
PreSetTrainDone_missing == FALSE

\* agent.py 300: the first train_done is set before the threads start.
PreSetTrainDone == TRUE

\* agent.py 297-306: clear/set the events and start both threads.
MainTrain ==
  /\ main = "ready"
  /\ act_chosen' = FALSE
  /\ train_done' = PreSetTrainDone
  /\ sigs' = IF PreSetTrainDone THEN << Sig("train_done", 0, "main") >> ELSE << >>
  /\ acks' = [act_chosen |-> 0, train_done |-> 0]
  /\ trained' = << >> /\ synced' = << >> /\ failed' = {}
  /\ nn_pc' = "start" /\ env_pc' = "reset0"
  /\ main' = "join_env"
  /\ UNCHANGED <<cfg, obsVars, logVars, diskVars, restarts, procVars, env_t, done, action,
                 eval_t, nn_t, feed>>

Terminated(pc) == pc \in {"done", "failed"}

\* agent.py 309: env_thread.join() returns when the thread has ended, also
\* when it ended with an exception (threading prints it and drops it).
JoinEnvReady == Terminated(env_pc)

MainJoinEnv ==
  /\ main = "join_env" /\ JoinEnvReady
  /\ main' = "join_nn"
  /\ UNCHANGED <<cfg, obsVars, logVars, diskVars, restarts, procVars, eventVars, envVars, nnVars,
                 histVars>>

\* agent.py 310: nn_thread.join(); train() then returns None.
JoinNNReady == Terminated(nn_pc)

MainJoinNN ==
  /\ main = "join_nn" /\ JoinNNReady
  /\ main' = "returned"
  /\ UNCHANGED <<cfg, obsVars, logVars, diskVars, restarts, procVars, eventVars, envVars, nnVars,
                 histVars>>

\* A new process on the same model_dir and arguments: Agent.__init__ again.
Restart ==
  /\ main = "returned" /\ restarts < MaxRestarts
  /\ restarts' = restarts + 1
  /\ main' = "unbuilt"
  /\ graph' = {} /\ t_inc_target' = "None"
  /\ start_step' = 0 /\ learn_started' = FALSE
  /\ t_tf' = 0 /\ agent_net' = 0 /\ target_net' = 0
  /\ replay_buf' = << >> /\ env_steps' = 0
  /\ eval_runs' = -1 /\ mode' = "t"
  /\ act_chosen' = FALSE /\ train_done' = FALSE
  /\ env_pc' = "idle" /\ env_t' = 0 /\ done' = FALSE /\ action' = "none" /\ eval_t' = 0
  /\ nn_pc' = "idle" /\ nn_t' = 0 /\ feed' = 0
  /\ sigs' = << >> /\ acks' = [act_chosen |-> 0, train_done |-> 0]
  /\ trained' = << >> /\ synced' = << >> /\ failed' = {}
  /\ env_obs' = NoObs /\ obs' = NoObs /\ eval_obs' = NoObs /\ reset_calls' = << >>
  /\ saved' = << >> /\ evaled' = << >>
  /\ UNCHANGED <<cfg, diskVars>>

\* --------------------------------------------------------------- the events
\* Mutant of WaitReady: the waiter goes on without looking at the event.
WaitReady_nowait(event) == TRUE

\* agent.py 454, 460: `while not event.is_set(): event.wait()`.
WaitReady(event) == event

\* ------------------------------------------------------- environment thread
\* Mutant of InRange: the loops end one step early.
InRange_exclusive(t) == t < cfg.stop_step

\* agent.py 379, 425: `for t in range(self.start_step, self.stop_step+1)`.
InRange(t) == t <= cfg.stop_step

EnvLoop(t) == IF InRange(t) THEN "wait" ELSE "done"

\* Mutant of ResetCalls: the model is reset whether or not learning has started.
ResetCalls_always(ls) == << "model.reset", "_reset", "env.reset" >>

\* agent.py 167-170: reset() runs the model's reset and _reset() only if
\* learn_started, then returns self.env.reset().
ResetCalls(ls) == IF ls THEN << "model.reset", "_reset", "env.reset" >> ELSE << "env.reset" >>

\* agent.py 377: obs = self.reset(), then the first loop test.
EnvReset0 ==
  /\ env_pc = "reset0"
  /\ reset_calls' = ResetCalls(learn_started)
  /\ env_obs' = Obs("reset", mode, start_step - 1, FALSE)
  /\ obs' = env_obs'
  /\ env_t' = start_step
  /\ env_pc' = EnvLoop(start_step)
  /\ UNCHANGED <<cfg, eval_obs, logVars, diskVars, mainVars, procVars, eventVars, done, action,
                 eval_t, nnVars, histVars>>

\* agent.py 383, 460-461: block until train_done is set.
EnvWait ==
  /\ env_pc = "wait"
  /\ WaitReady(train_done)
  /\ env_pc' = "clear"
  /\ UNCHANGED <<cfg, obsVars, logVars, diskVars, mainVars, procVars, eventVars, env_t, done,
                 action, eval_t, nnVars, histVars>>

\* agent.py 462: self._train_done.clear().
EnvClear ==
  /\ env_pc = "clear"
  /\ train_done' = FALSE
  /\ acks' = [acks EXCEPT !.train_done = @ + 1]
  /\ env_pc' = "evalchk"
  /\ UNCHANGED <<cfg, obsVars, logVars, diskVars, mainVars, procVars, act_chosen, env_t, done,
                 action, eval_t, nnVars, sigs, trained, synced, failed>>

\* Mutant of EvalDue: the operands of the modulus swapped.
EvalDue_swapped(t) == cfg.eval_len > 0 /\ cfg.eval_freq % t = 0

\* agent.py 386: `self.eval_len > 0 and t % self.eval_freq == 0`.
EvalDue(t) == cfg.eval_len > 0 /\ t % cfg.eval_freq = 0

\* agent.py 386: the modulus is computed iff eval_len > 0, and is defined iff
\* eval_freq is not zero.
EvalTestDefined(t) == cfg.eval_len <= 0 \/ cfg.eval_freq # 0

EnvEvalCheck ==
  /\ env_pc = "evalchk" /\ EvalTestDefined(env_t)
  /\ env_pc' = IF EvalDue(env_t) THEN "eval_begin" ELSE "choose"
  /\ UNCHANGED <<cfg, obsVars, logVars, diskVars, mainVars, procVars, eventVars, env_t, done,
                 action, eval_t, nnVars, histVars>>

\* Mutant of EvalStart: the range counted from zero.
EvalStart_zero(r) == cfg.eval_len * r

\* agent.py 321-322, 326: the steps of evaluation run r are range(start, stop).
EvalStart(r) == cfg.eval_len * r + 1
EvalStop(r)  == cfg.eval_len + EvalStart(r)

EvalLoop(t, r) == IF t < EvalStop(r) THEN "eval_act" ELSE "eval_end"

\* agent.py 318-326: monitor to eval mode, count the run, reset the environment.
EvalBegin ==
  /\ env_pc = "eval_begin"
  /\ mode' = "e"
  /\ eval_runs' = eval_runs + 1
  /\ eval_t' = EvalStart(eval_runs')
  /\ env_obs' = Obs("reset", mode', eval_t' - 1, FALSE)
  /\ eval_obs' = env_obs'
  /\ evaled' = Append(evaled, [what |-> "begin", t |-> env_t])
  /\ env_pc' = EvalLoop(eval_t', eval_runs')
  /\ UNCHANGED <<cfg, obs, reset_calls, saved, diskVars, mainVars, graph, t_inc_target,
                 start_step, learn_started, t_tf, agent_net, target_net, replay_buf, env_steps,
                 eventVars, env_t, done, action, nnVars, histVars>>

\* agent.py 328: action = self._action_eval(obs, t), a run of the model.
EvalAct ==
  /\ env_pc = "eval_act"
  /\ evaled' = Append(evaled, [what |-> "act", t |-> eval_t])
  /\ env_pc' = "eval_step"
  /\ UNCHANGED <<cfg, obsVars, saved, diskVars, mainVars, procVars, eventVars, env_t, done,
                 action, eval_t, nnVars, histVars>>

\* agent.py 329-343: step the environment; either the episode ended and
\* reset() follows, or the loop goes on (the log at 336-343 changes no state).
EvalStep ==
  /\ env_pc = "eval_step"
  /\ \E d \in BOOLEAN :
       /\ env_obs' = Obs("step", mode, eval_t, d)
       /\ IF d THEN /\ env_pc' = "eval_reset"
                    /\ eval_t' = eval_t
                    /\ eval_obs' = eval_obs
               ELSE /\ eval_t' = eval_t + 1
                    /\ eval_obs' = env_obs'
                    /\ env_pc' = EvalLoop(eval_t', eval_runs)
  /\ reset_calls' = << >>
  /\ UNCHANGED <<cfg, obs, logVars, diskVars, mainVars, procVars, eventVars, env_t, done, action,
                 nnVars, histVars>>

\* agent.py 333-334: next_obs = self.reset() inside eval().
EvalReset ==
  /\ env_pc = "eval_reset"
  /\ reset_calls' = ResetCalls(learn_started)
  /\ env_obs' = Obs("reset", mode, eval_t, FALSE)
  /\ eval_obs' = env_obs'
  /\ eval_t' = eval_t + 1
  /\ env_pc' = EvalLoop(eval_t', eval_runs)
  /\ UNCHANGED <<cfg, obs, logVars, diskVars, mainVars, procVars, eventVars, env_t, done, action,
                 nnVars, histVars>>

\* Mutant of ModeAfterEval: eval() leaves the monitor in evaluation mode.
ModeAfterEval_kept == "e"

\* agent.py 346: self.env_monitor.mode = 't'.
ModeAfterEval == "t"

\* agent.py 346: monitor back to train mode; eval() returns into _run_env.
EvalEnd ==
  /\ env_pc = "eval_end"
  /\ mode' = ModeAfterEval
  /\ eval_obs' = NoObs
  /\ evaled' = Append(evaled, [what |-> "end", t |-> env_t])
  /\ env_pc' = "choose"
  /\ UNCHANGED <<cfg, env_obs, obs, reset_calls, saved, diskVars, mainVars, graph, t_inc_target,
                 start_step, learn_started, t_tf, agent_net, target_net, replay_buf, env_steps,
                 eval_runs, eventVars, env_t, done, action, eval_t, nnVars, histVars>>

\* agent.py 390-395: the model's train-time action if learn_started, else a
\* sample of the action space.
EnvChoose ==
  /\ env_pc = "choose"
  /\ action' = IF learn_started THEN "model" ELSE "random"
  /\ env_pc' = "signal"
  /\ UNCHANGED <<cfg, obsVars, logVars, diskVars, mainVars, procVars, eventVars, env_t, done,
                 eval_t, nnVars, histVars>>

\* agent.py 398, 466: self._act_chosen.set().
EnvSignal ==
  /\ env_pc = "signal"
  /\ act_chosen' = TRUE
  /\ sigs' = Append(sigs, Sig("action_chosen", env_t, "env"))
  /\ env_pc' = "inc"
  /\ UNCHANGED <<cfg, obsVars, logVars, diskVars, mainVars, procVars, train_done, env_t, done,
                 action, eval_t, nnVars, acks, trained, synced, failed>>

\* Mutant of TfInc: the counter advanced by two.
TfInc_twice(v) == v + 2

\* agent.py 97: t_inc_op assigns t_tf + 1 to t_tf.
TfInc(v) == v + 1

\* agent.py 401: self.sess.run(self.t_tf_inc).
EnvInc ==
  /\ env_pc = "inc"
  /\ t_tf' = TfInc(t_tf)
  /\ env_pc' = "step"
  /\ UNCHANGED <<cfg, obsVars, logVars, diskVars, mainVars, graph, t_inc_target, start_step,
                 learn_started, agent_net, target_net, replay_buf, env_steps, eval_runs, mode,
                 eventVars, env_t, done, action, eval_t, nnVars, histVars>>

\* agent.py 404: next_obs, reward, done, _ = self.env.step(action).
EnvStep ==
  /\ env_pc = "step"
  /\ done' \in BOOLEAN
  /\ env_obs' = Obs("step", mode, env_t, done')
  /\ reset_calls' = << >>
  /\ env_steps' = env_steps + 1
  /\ env_pc' = "store"
  /\ UNCHANGED <<cfg, obs, eval_obs, logVars, diskVars, mainVars, graph, t_inc_target,
                 start_step, learn_started, t_tf, agent_net, target_net, replay_buf, eval_runs,
                 mode, eventVars, env_t, action, eval_t, nnVars, histVars>>

\* agent.py 407, 410, 412: store the transition, then test `done`; without a
\* reset the next observation is the one env.step returned.
EnvStore ==
  /\ env_pc = "store"
  /\ replay_buf' = Append(replay_buf, env_t)
  /\ obs' = IF done THEN obs ELSE env_obs
  /\ env_pc' = IF done THEN "reset" ELSE "log"
  /\ UNCHANGED <<cfg, env_obs, eval_obs, reset_calls, logVars, diskVars, mainVars, graph,
                 t_inc_target, start_step, learn_started, t_tf, agent_net, target_net, env_steps,
                 eval_runs, mode, eventVars, env_t, done, action, eval_t, nnVars, histVars>>

\* agent.py 411-412: next_obs = self.reset(); obs = next_obs.
EnvReset ==
  /\ env_pc = "reset"
  /\ reset_calls' = ResetCalls(learn_started)
  /\ env_obs' = Obs("reset", mode, env_t, FALSE)
  /\ obs' = env_obs'
  /\ done' = FALSE
  /\ env_pc' = "log"
  /\ UNCHANGED <<cfg, eval_obs, logVars, diskVars, mainVars, procVars, eventVars, env_t, action,
                 eval_t, nnVars, histVars>>

\* agent.py 414, 379: self._log_stats(t), then the next iteration.
EnvLog ==
  /\ env_pc = "log"
  /\ env_t' = env_t + 1
  /\ action' = "none"
  /\ env_pc' = EnvLoop(env_t')
  /\ UNCHANGED <<cfg, obsVars, logVars, diskVars, mainVars, procVars, eventVars, done, eval_t,
                 nnVars, histVars>>

EnvNext ==
  \/ EnvReset0 \/ EnvWait \/ EnvClear \/ EnvEvalCheck
  \/ EvalBegin \/ EvalAct \/ EvalStep \/ EvalReset \/ EvalEnd
  \/ EnvChoose \/ EnvSignal \/ EnvInc \/ EnvStep \/ EnvStore \/ EnvReset \/ EnvLog

\* ----------------------------------------------------------- network thread
NNLoop(t) == IF InRange(t) THEN "check" ELSE "done"

\* agent.py 425: the first loop test of _train_model.
NNStart ==
  /\ nn_pc = "start"
  /\ nn_t' = start_step
  /\ nn_pc' = NNLoop(start_step)
  /\ UNCHANGED <<cfg, obsVars, logVars, diskVars, mainVars, procVars, eventVars, envVars, feed,
                 histVars>>

\* Mutant of TrainDue: start_train not looked at.
TrainDue_nostart(t) == t % cfg.train_freq = 0

\* Mutant of TrainDue: the comparison with start_train made strict.
TrainDue_strict(t) == t > cfg.start_train /\ t % cfg.train_freq = 0

\* agent.py 427: `t >= self.start_train and t % self.train_freq == 0`.
TrainDue(t) == t >= cfg.start_train /\ t % cfg.train_freq = 0

\* agent.py 427: the modulus is computed iff t >= start_train, and is defined
\* iff train_freq is not zero.
TrainTestDefined(t) == t < cfg.start_train \/ cfg.train_freq # 0

\* agent.py 427-429: on a training step set learn_started.
NNCheck ==
  /\ nn_pc = "check" /\ TrainTestDefined(nn_t)
  /\ IF TrainDue(nn_t)
       THEN /\ learn_started' = TRUE
            /\ nn_pc' = "feed"
       ELSE /\ learn_started' = learn_started
            /\ nn_pc' = "wait"
  /\ UNCHANGED <<cfg, obsVars, logVars, diskVars, mainVars, graph, t_inc_target, start_step,
                 t_tf, agent_net, target_net, replay_buf, env_steps, eval_runs, mode, eventVars,
                 envVars, nn_t, feed, histVars>>

\* agent.py 432: feed_dict = self._get_feed_dict(t), a sample of the buffer.
NNFeed ==
  /\ nn_pc = "feed"
  /\ feed' = Len(replay_buf)
  /\ nn_pc' = "wait"
  /\ UNCHANGED <<cfg, obsVars, logVars, diskVars, mainVars, procVars, eventVars, envVars, nn_t,
                 histVars>>

\* agent.py 434, 444, 454-455: block until act_chosen is set.
NNWait ==
  /\ nn_pc = "wait"
  /\ WaitReady(act_chosen)
  /\ nn_pc' = "clear"
  /\ UNCHANGED <<cfg, obsVars, logVars, diskVars, mainVars, procVars, eventVars, envVars, nn_t,
                 feed, histVars>>

\* Mutant of SaveDue: save() writes also before learning has started.
SaveDue_always(t) == cfg.save_freq > 0 /\ t % cfg.save_freq = 0

\* agent.py 446, 262: save() is called when save_freq divides t and does
\* something only if learn_started.
SaveDue(t) == cfg.save_freq > 0 /\ t % cfg.save_freq = 0 /\ learn_started

AfterStep(t) == IF SaveDue(t) THEN "save_mon" ELSE "signal"

\* agent.py 456: self._act_chosen.clear(); then the branch taken at 427.
NNClear ==
  /\ nn_pc = "clear"
  /\ act_chosen' = FALSE
  /\ acks' = [acks EXCEPT !.act_chosen = @ + 1]
  /\ nn_pc' = IF TrainDue(nn_t) THEN "train" ELSE AfterStep(nn_t)
  /\ UNCHANGED <<cfg, obsVars, logVars, diskVars, mainVars, procVars, train_done, envVars, nn_t,
                 feed, sigs, trained, synced, failed>>

\* Mutant of TargetDue: the operands of the modulus swapped.
TargetDue_swapped(t) == cfg.update_target_freq % t = 0

\* agent.py 440: `t % self.update_target_freq == 0`.
TargetDue(t) == t % cfg.update_target_freq = 0

\* agent.py 437: run train_op, one gradient update of the primary network.
NNTrain ==
  /\ nn_pc = "train"
  /\ agent_net' = agent_net + 1
  /\ trained' = Append(trained, nn_t)
  /\ nn_pc' = IF TargetDue(nn_t) THEN "sync" ELSE AfterStep(nn_t)
  /\ UNCHANGED <<cfg, obsVars, logVars, diskVars, mainVars, graph, t_inc_target, start_step,
                 learn_started, t_tf, target_net, replay_buf, env_steps, eval_runs, mode,
                 eventVars, envVars, nn_t, feed, sigs, acks, synced, failed>>

\* agent.py 441: self.sess.run(self.model.update_target).
NNSync ==
  /\ nn_pc = "sync"
  /\ target_net' = UpdateTarget(agent_net)
  /\ synced' = Append(synced, nn_t)
  /\ nn_pc' = AfterStep(nn_t)
  /\ UNCHANGED <<cfg, obsVars, logVars, diskVars, mainVars, graph, t_inc_target, start_step,
                 learn_started, t_tf, agent_net, replay_buf, env_steps, eval_runs, mode,
                 eventVars, envVars, nn_t, feed, sigs, acks, trained, failed>>

\* agent.py 266: self.env_monitor.save().
NNSaveMonitor ==
  /\ nn_pc = "save_mon"
  /\ mon_ckpt' = env_steps
  /\ saved' = Append(saved, [what |-> "monitor", t |-> nn_t])
  /\ nn_pc' = "save_model"
  /\ UNCHANGED <<cfg, obsVars, evaled, ckpt, mainVars, procVars, eventVars, envVars, nn_t, feed,
                 histVars>>

\* agent.py 269: self.saver.save(self.sess, self.model_dir, global_step=self.t_tf).
NNSaveModel ==
  /\ nn_pc = "save_model"
  /\ ckpt' = Checkpoint(graph, t_tf, agent_net, target_net, nn_t)
  /\ saved' = Append(saved, [what |-> "model", t |-> nn_t])
  /\ nn_pc' = "signal"
  /\ UNCHANGED <<cfg, obsVars, evaled, mon_ckpt, mainVars, procVars, eventVars, envVars, nn_t,
                 feed, histVars>>

\* agent.py 449, 470, 425: self._train_done.set(), then the next iteration.
NNSignal ==
  /\ nn_pc = "signal"
  /\ train_done' = TRUE
  /\ sigs' = Append(sigs, Sig("train_done", nn_t, "nn"))
  /\ nn_t' = nn_t + 1
  /\ nn_pc' = NNLoop(nn_t')
  /\ UNCHANGED <<cfg, obsVars, logVars, diskVars, mainVars, procVars, act_chosen, envVars, feed,
                 acks, trained, synced, failed>>

NNNext ==
  \/ NNStart \/ NNCheck \/ NNFeed \/ NNWait \/ NNClear
  \/ NNTrain \/ NNSync \/ NNSaveMonitor \/ NNSaveModel \/ NNSignal

\* ------------------------------------------------------------ specification
MainNext ==
  \/ BuildFresh \/ BuildRestore \/ BuildRestoreFails
  \/ MainTrain \/ MainJoinEnv \/ MainJoinNN \/ Restart

Next == MainNext \/ EnvNext \/ NNNext

Spec == Init /\ [][Next]_vars

\* The threads are scheduled by the operating system: a thread that can take a
\* step eventually takes one.
Fairness == WF_vars(MainNext) /\ WF_vars(EnvNext) /\ WF_vars(NNNext)

\* The configurations at the corners of the grid, and the scenario.
CornerConfigs ==
  { c \in GridConfigs :
      /\ c.start_train \in {0, c.stop_step - 1}
      /\ c.train_freq \in {1, MaxFreq}
      /\ c.update_target_freq = MaxFreq
      /\ c.save_freq \in {0, 1} }
  \cup {ScenarioConfig}

CornerInit == Init /\ cfg \in CornerConfigs

FairSpec == CornerInit /\ [][Next]_vars /\ Fairness

\* --------------------------------------------------------------- exceptions
\* The calls of _run_env that can raise: the model, the session, the
\* environment, the replay buffer, the monitor.
EnvRaises ==
  /\ env_pc \in {"reset0", "eval_begin", "eval_act", "eval_step", "eval_reset",
                 "choose", "inc", "step", "store", "reset", "log"}
  /\ env_pc' = "failed"
  /\ failed' = failed \cup {"env_thread"}
  /\ UNCHANGED <<cfg, obsVars, logVars, diskVars, mainVars, procVars, eventVars, env_t, done,
                 action, eval_t, nnVars, sigs, acks, trained, synced>>

\* The calls of _train_model that can raise: the feed, the session, the saver.
NNRaises ==
  /\ nn_pc \in {"feed", "train", "sync", "save_mon", "save_model"}
  /\ nn_pc' = "failed"
  /\ failed' = failed \cup {"net_thread"}
  /\ UNCHANGED <<cfg, obsVars, logVars, diskVars, mainVars, procVars, eventVars, envVars, nn_t,
                 feed, sigs, acks, trained, synced>>

FailNext == Next \/ EnvRaises \/ NNRaises

FailSpec == Init /\ [][FailNext]_vars

FairFailSpec == Init /\ [][FailNext]_vars /\ Fairness

\* ------------------------------------------------- unchecked configurations
\* Agent.__init__ (agent.py 42-58) stores its arguments as they are: these
\* three are accepted like any other.
InvalidConfigs ==
  { [ stop_step |-> 2, start_train |-> 0, train_freq |-> 0, update_target_freq |-> 1,
      save_freq |-> 0, eval_freq |-> 1, eval_len |-> 0 ],
    [ stop_step |-> 2, start_train |-> 1, train_freq |-> 1, update_target_freq |-> 1,
      save_freq |-> 0, eval_freq |-> 0, eval_len |-> 1 ],
    [ stop_step |-> 1, start_train |-> 1, train_freq |-> 1, update_target_freq |-> 1,
      save_freq |-> 0, eval_freq |-> 1, eval_len |-> 0 ] }

ConfigInit ==
  /\ cfg \in CornerConfigs \cup InvalidConfigs
  /\ ckpt \in InputCkpts
  /\ mon_ckpt = 0
  /\ main = "unbuilt" /\ restarts = 0
  /\ Unbuilt

\* agent.py 427: `t % self.train_freq` with train_freq = 0 raises
\* ZeroDivisionError in net_thread.
NNCheckRaises ==
  /\ nn_pc = "check" /\ ~TrainTestDefined(nn_t)
  /\ nn_pc' = "failed"
  /\ failed' = failed \cup {"net_thread"}
  /\ UNCHANGED <<cfg, obsVars, logVars, diskVars, mainVars, procVars, eventVars, envVars,
                 nn_t, feed, sigs, acks, trained, synced>>

\* agent.py 386: `t % self.eval_freq` with eval_freq = 0 raises
\* ZeroDivisionError in env_thread.
EnvEvalCheckRaises ==
  /\ env_pc = "evalchk" /\ ~EvalTestDefined(env_t)
  /\ env_pc' = "failed"
  /\ failed' = failed \cup {"env_thread"}
  /\ UNCHANGED <<cfg, obsVars, logVars, diskVars, mainVars, procVars, eventVars,
                 env_t, done, action, eval_t, nnVars, sigs, acks, trained, synced>>

ConfigNext == Next \/ NNCheckRaises \/ EnvEvalCheckRaises

ConfigSpec == ConfigInit /\ [][ConfigNext]_vars

\* ------------------------------------------------------------------ claims
\* The loop steps of the current train() call, in order, and their number.
NumSteps == IF cfg.stop_step >= start_step THEN cfg.stop_step - start_step + 1 ELSE 0
Steps    == [i \in 1..NumSteps |-> start_step + i - 1]

IsPrefix(s, r) == Len(s) <= Len(r) /\ SubSeq(r, 1, Len(s)) = s

InTrain   == main \in {"join_env", "join_nn", "returned"}
FreshRun  == InTrain /\ graph = BuiltGraph

\* C1: the loop steps at which a gradient update runs are, in order and each
\* once, exactly the steps t of start_step..stop_step with t >= start_train
\* and t % train_freq = 0: never another step, and all of them once train()
\* has returned.
C1_TrainingSteps ==
  LET isDue(t) == t >= cfg.start_train /\ t % cfg.train_freq = 0
      due      == SelectSeq(Steps, isDue)
  IN  InTrain => /\ IsPrefix(trained, due)
                 /\ (main = "returned" => trained = due)
                 /\ (nn_pc = "signal" => trained = SelectSeq(due, LAMBDA t : t <= nn_t))

C1_Witness ==
  /\ main = "returned" /\ cfg = ScenarioConfig /\ start_step = 1
  /\ trained = <<12, 16, 20>>

\* C2: the target is synchronised at step t iff a gradient update ran at t and
\* t % update_target_freq = 0, after that update, and never at a step without
\* a gradient update.
C2_TargetSync ==
  LET isDue(t) == t >= cfg.start_train /\ t % cfg.train_freq = 0
                  /\ t % cfg.update_target_freq = 0
      due      == SelectSeq(Steps, isDue)
  IN  InTrain => /\ IsPrefix(synced, due)
                 /\ (main = "returned" => synced = due)
                 /\ (nn_pc = "signal" => synced = SelectSeq(due, LAMBDA t : t <= nn_t))
                 /\ \A i \in DOMAIN synced : \E j \in DOMAIN trained : trained[j] = synced[i]

C2_Witness ==
  /\ main = "returned" /\ cfg = ScenarioConfig /\ start_step = 1
  /\ synced = <<20>> /\ Len(trained) = 3

\* C3: the Event.set() calls of a train() run of N steps are train_done by
\* train(), then action_chosen(t), train_done(t) for t = start_step, ... in
\* strict alternation, N of each by the threads; every wait clears exactly one
\* assertion, and an event is never set while its last assertion is unconsumed.
Sets(ev) == Cardinality({i \in DOMAIN sigs : sigs[i].ev = ev})

ExpectedSig(i) ==
  IF i = 1 THEN Sig("train_done", 0, "main")
  ELSE IF i % 2 = 0 THEN Sig("action_chosen", start_step + (i \div 2) - 1, "env")
  ELSE Sig("train_done", start_step + (i \div 2) - 1, "nn")

C3_StrictAlternation ==
  InTrain =>
    /\ \A i \in DOMAIN sigs : sigs[i] = ExpectedSig(i)
    /\ Sets("action_chosen") - acks.act_chosen = (IF act_chosen THEN 1 ELSE 0)
    /\ Sets("train_done") - acks.train_done = (IF train_done THEN 1 ELSE 0)
    /\ (main = "returned" => /\ Len(sigs) = 2 * NumSteps + 1
                             /\ acks.act_chosen = NumSteps
                             /\ acks.train_done = NumSteps)

C3_Witness ==
  /\ main = "returned" /\ NumSteps = MaxStop /\ Len(sigs) = 2 * MaxStop + 1
  /\ acks.act_chosen = MaxStop

\* C4: the environment thread never selects an action from the model (train
\* action with learn_started, or an evaluation action) while the network
\* thread runs a gradient update or a target synchronisation.
EnvReadsModel  == (env_pc = "choose" /\ learn_started) \/ env_pc = "eval_act"
NNWritesModel  == nn_pc \in {"train", "sync"}

C4_NoReadDuringWrite == ~(EnvReadsModel /\ NNWritesModel)

C4_Witness ==
  /\ env_pc = "eval_act" /\ Len(trained) > 0
  /\ nn_pc = "wait" /\ nn_t >= cfg.start_train /\ nn_t % cfg.train_freq = 0

\* C5: with no exception, under fair scheduling every train() call returns,
\* and it returns only after both threads have run all their iterations.
C5_TrainTerminates ==
  /\ (main = "join_env") ~> (main = "returned")
  /\ [](main = "returned" =>
          /\ env_pc = "done" /\ nn_pc = "done"
          /\ env_t = start_step + NumSteps /\ nn_t = start_step + NumSteps
          /\ Len(replay_buf) = NumSteps)

C5_Witness ==
  /\ main = "returned" /\ env_pc = "done" /\ nn_pc = "done"
  /\ eval_runs >= 0 /\ Len(replay_buf) = MaxStop

\* C6: when a thread has ended with an exception, train() does not return
\* normally to its caller.
C6_FailurePropagates == main = "returned" => failed = {}

\* C7: when a thread fails, the other one is not left blocked forever: under
\* fair scheduling train() still comes back to its caller.
C7_NoDeadlockAfterFailure == [](failed # {} => <>(main = "returned"))

\* C8: an agent rebuilt from the checkpoint the network thread wrote at loop
\* step t0 has start_step = t0 + 1 and learn_started = TRUE.
RestoredFromOwnSave ==
  /\ main = "ready" /\ restarts > 0
  /\ ckpt.present /\ ckpt.step > 0 /\ graph = ckpt.graph

C8_ResumeAtNextStep ==
  RestoredFromOwnSave => start_step = ckpt.step + 1 /\ learn_started

\* C9: the counter t_tf never decreases within a process; it changes only by
\* the one increment of a training-loop iteration, never during eval(); in
\* the loop it is t before the increment of step t and t + 1 after it (t at
\* the choice of the action, t + 1 at the store), and in a fresh run it is
\* stop_step + 1 when train() has returned.
C9_CounterState ==
  /\ env_pc \in {"wait", "clear", "evalchk", "eval_begin", "eval_act", "eval_step",
                 "eval_reset", "eval_end", "choose", "signal", "inc"} => t_tf = env_t
  /\ env_pc \in {"step", "store", "reset", "log"} => t_tf = env_t + 1
  /\ (FreshRun /\ main = "returned") => t_tf = cfg.stop_step + 1

C9_CounterStep ==
  (main # "unbuilt" /\ main' # "unbuilt") =>
     /\ t_tf' >= t_tf
     /\ t_tf' # t_tf => /\ env_pc = "inc" /\ env_pc' = "step" /\ env_t' = env_t
                        /\ t_tf' = t_tf + 1

C9_TimestepCounter == [](InTrain => C9_CounterState) /\ [][C9_CounterStep]_vars

C9_Witness ==
  /\ FreshRun /\ main = "returned" /\ eval_runs >= 0
  /\ t_tf = cfg.stop_step + 1 /\ cfg.stop_step = MaxStop

\* C10: build() on a checkpoint whose graph is the one the fresh branch of
\* this code builds resolves every handle: it fails only on another graph.
C10_OwnCheckpointRestores == main = "build_failed" => ckpt.graph # BuiltGraph

\* ------------------------------------------------------------ checkpointing
Range(s) == {s[i] : i \in DOMAIN s}

\* The last write of save() was the model's: ckpt and mon_ckpt are then the
\* two files of one save() call of this process.
SaveComplete == saved # << >> /\ saved[Len(saved)].what = "model"

\* C11: a checkpoint written by save() is mutually consistent in every
\* interleaving: the persisted counter and the persisted monitor statistics
\* stand for the same number of completed environment steps, and the persisted
\* parameters hold no gradient update of a step that the persisted counter
\* says has not been taken yet.
C11_CheckpointConsistent ==
  (InTrain /\ SaveComplete) =>
    /\ mon_ckpt = ckpt.t_tf - start_step
    /\ (ckpt.step \in Range(trained) => ckpt.t_tf > ckpt.step)

\* C12: save() writes nothing while learn_started is false; in a fresh run the
\* network thread writes the checkpoint of step t (monitor, then model) iff
\* save_freq > 0, t % save_freq = 0 and a training step t' <= t has fired, and
\* it writes it after the gradient update and target synchronisation of step t
\* and before train_done(t) is signalled.
C12_SaveWhenLearning ==
  LET isTrain(t)  == t >= cfg.start_train /\ t % cfg.train_freq = 0
      isDue(t)    == /\ cfg.save_freq > 0 /\ t % cfg.save_freq = 0
                     /\ \E u \in start_step..t : isTrain(u)
      signalled   == {sigs[i].t : i \in {j \in DOMAIN sigs : sigs[j].by = "nn"}}
      stepsOf(k)  == LET w == SelectSeq(saved, LAMBDA x : x.what = k)
                     IN  [i \in DOMAIN w |-> w[i].t]
      begun(t)    == t \in signalled \/ (t = nn_t /\ nn_pc \in {"save_model", "signal"})
      ended(t)    == t \in signalled \/ (t = nn_t /\ nn_pc = "signal")
  IN  /\ (InTrain /\ ~learn_started) => saved = << >>
      /\ (FreshRun /\ saved = << >>) => (~ckpt.present /\ mon_ckpt = 0)
      /\ FreshRun =>
           /\ \A i \in DOMAIN saved : saved[i].what = IF i % 2 = 1 THEN "monitor" ELSE "model"
           /\ stepsOf("monitor") = SelectSeq(Steps, LAMBDA t : isDue(t) /\ begun(t))
           /\ stepsOf("model") = SelectSeq(Steps, LAMBDA t : isDue(t) /\ ended(t))
           /\ nn_pc \in {"save_mon", "save_model"} =>
                /\ isDue(nn_t) /\ nn_t \notin signalled
                /\ isTrain(nn_t) => nn_t \in Range(trained)
                /\ (isTrain(nn_t) /\ nn_t % cfg.update_target_freq = 0) => nn_t \in Range(synced)

C12_Witness ==
  /\ FreshRun /\ main = "returned"
  /\ cfg.save_freq = 1 /\ cfg.start_train = 2 /\ cfg.stop_step = 3
  /\ Len(saved) = 4 /\ saved[1].t = 2 /\ ckpt.step = 3

\* C13: within one agent the r-th call of eval() (r = 0, 1, ...) acts at
\* exactly the step indices eval_len*r + 1 .. eval_len*r + eval_len, in order:
\* the ranges of consecutive calls are adjacent, with no overlap and no gap.
C13_EvalRanges ==
  LET len == cfg.eval_len + 2     \* begin, eval_len steps, end
  IN  \A i \in DOMAIN evaled :
        LET r == (i - 1) \div len
            j == (i - 1) % len
        IN  IF j = 0 THEN evaled[i].what = "begin"
            ELSE IF j = len - 1 THEN evaled[i].what = "end"
            ELSE evaled[i].what = "act" /\ evaled[i].t = cfg.eval_len * r + j

C13_Witness ==
  /\ main = "returned" /\ cfg = EvalConfig
  /\ Len(evaled) = 8 /\ evaled[2].t = 1 /\ evaled[3].t = 2 /\ evaled[6].t = 3 /\ evaled[7].t = 4

\* C14: during train() an evaluation pass runs at loop step t iff eval_len > 0
\* and t % eval_freq = 0, once for such a t, and it is over before the action
\* of step t is chosen; with eval_len <= 0 no pass ever runs and eval_freq is
\* not looked at.
C14_EvalSchedule ==
  LET isDue(t)  == cfg.eval_len > 0 /\ t % cfg.eval_freq = 0
      stepsOf(k) == LET e == SelectSeq(evaled, LAMBDA x : x.what = k)
                    IN  [i \in DOMAIN e |-> e[i].t]
      inPass    == env_pc \in {"eval_act", "eval_step", "eval_reset", "eval_end"}
      pastPass  == env_pc \in {"choose", "signal", "inc", "step", "store", "reset", "log"}
      begun(t)  == t < env_t \/ (t = env_t /\ (inPass \/ pastPass))
      ended(t)  == t < env_t \/ (t = env_t /\ pastPass)
      chosen    == {sigs[i].t : i \in {j \in DOMAIN sigs : sigs[j].by = "env"}}
  IN  InTrain =>
        /\ stepsOf("begin") = SelectSeq(Steps, LAMBDA t : isDue(t) /\ begun(t))
        /\ stepsOf("end") = SelectSeq(Steps, LAMBDA t : isDue(t) /\ ended(t))
        /\ inPass => (action = "none" /\ env_t \notin chosen)
        /\ cfg.eval_len <= 0 => (evaled = << >> /\ eval_runs = -1)

C14_Witness ==
  /\ main = "returned" /\ cfg.eval_len = 1 /\ cfg.eval_freq = 2 /\ cfg.stop_step = 3
  /\ start_step = 1 /\ Len(evaled) = 3 /\ evaled[1].t = 2 /\ Len(replay_buf) = 3

\* C15: while the environment thread is inside eval() the network thread is
\* held before its wait on act_chosen, and no step of either thread changes
\* the primary or target parameters, the replay buffer, the counter or the
\* files of model_dir: no gradient update, target synchronisation, checkpoint,
\* store or increment happens, and all of them are after eval() what they
\* were before it.
InEval == env_pc \in {"eval_begin", "eval_act", "eval_step", "eval_reset", "eval_end"}

C15_EvalFrame ==
  /\ [](InEval => (nn_pc \in {"start", "check", "feed", "wait"} /\ ~act_chosen))
  /\ [][InEval => UNCHANGED <<agent_net, target_net, replay_buf, t_tf, ckpt, mon_ckpt,
                              trained, synced, saved>>]_vars

C15_Witness ==
  /\ env_pc = "eval_end" /\ nn_pc = "wait"
  /\ agent_net > 0 /\ target_net > 0 /\ Len(replay_buf) > 0 /\ Len(saved) > 0

\* C16: in a fresh run, at every loop step t with no training step at or
\* before it (so at every t < start_train) the environment thread samples its
\* action at random and does not run the model's train-time policy, whatever
\* the interleaving.
C16_WarmupRandom ==
  LET isTrain(t) == t >= cfg.start_train /\ t % cfg.train_freq = 0
      warmup(t)  == \A u \in start_step..t : ~isTrain(u)
  IN  FreshRun =>
        /\ warmup(nn_t) => ~learn_started
        /\ (env_pc \in {"signal", "inc", "step", "store", "reset", "log"} /\ warmup(env_t))
             => action = "random"

C16_Witness ==
  /\ FreshRun /\ cfg.start_train = 1 /\ cfg.train_freq = 2
  /\ env_pc = "signal" /\ env_t = 1 /\ action = "random" /\ nn_pc = "wait"

\* C17: a fresh build leaves start_step = 1 and learn_started false; in a
\* fresh run learn_started is false as long as the network thread has reached
\* no training step; it becomes true only in the network thread at the head of
\* a training step or in the restore branch of build(), and it becomes false
\* again only when a new agent is constructed.
FirstTrainReached ==
  \E u \in start_step..nn_t : u >= cfg.start_train /\ u % cfg.train_freq = 0

LearnStartedSet ==
  \/ nn_pc = "check" /\ nn_pc' = "feed"
     /\ nn_t >= cfg.start_train /\ nn_t % cfg.train_freq = 0
  \/ main = "unbuilt" /\ main' = "ready" /\ ckpt.present

C17_LearnStarted ==
  /\ []((main = "ready" /\ graph = BuiltGraph) => (start_step = 1 /\ ~learn_started))
  /\ []((FreshRun /\ learn_started) => FirstTrainReached)
  /\ [][(~learn_started /\ learn_started') => LearnStartedSet]_vars
  /\ [][(learn_started /\ ~learn_started') => (main = "returned" /\ main' = "unbuilt")]_vars

C17_Witness ==
  /\ FreshRun /\ learn_started /\ cfg.start_train = 2 /\ cfg.train_freq = 1
  /\ nn_pc = "feed" /\ nn_t = 2 /\ trained = << >> /\ Len(replay_buf) = 1

\* C18: the target parameters change only through update_target: they equal
\* the primary ones right after a fresh build, a gradient update changes the
\* primary ones only, and afterwards the target holds what the primary held at
\* the most recent synchronisation; a restore takes both from the checkpoint
\* as they are and runs no synchronisation.
SameProcess == main # "unbuilt" /\ main' # "unbuilt"

\* The primary parameters at build time and at the last update_target so far.
PrimaryAtBuild == agent_net - Len(trained)
PrimaryAtSync ==
  PrimaryAtBuild + Cardinality({j \in DOMAIN trained : trained[j] <= synced[Len(synced)]})

C18_TargetNetwork ==
  /\ []((main = "ready" /\ graph = BuiltGraph) => target_net = agent_net)
  /\ []((InTrain /\ synced # << >>) => target_net = PrimaryAtSync)
  /\ []((FreshRun /\ synced = << >>) => target_net = PrimaryAtBuild)
  /\ [][(SameProcess /\ agent_net' # agent_net) =>
          (nn_pc = "train" /\ target_net' = target_net)]_vars
  /\ [][(SameProcess /\ target_net' # target_net) =>
          (nn_pc = "sync" /\ target_net' = agent_net /\ agent_net' = agent_net)]_vars
  /\ [][(main = "unbuilt" /\ main' = "ready" /\ ckpt.present) =>
          (target_net' = ckpt.target_net /\ agent_net' = ckpt.agent_net)]_vars

C18_Witness ==
  /\ FreshRun /\ synced = <<2>> /\ trained = <<1, 2, 3>>
  /\ target_net = 2 /\ agent_net = 3

\* C19: during train() the replay buffer gets one store per loop step t of
\* start_step..stop_step, in increasing t, made by the environment thread
\* after the env.step of t and before a reset of the episode; the network
\* thread and eval() store nothing, so a run stores stop_step - start_step + 1
\* transitions.
StoredUpTo ==
  IF env_pc \in {"reset", "log"} THEN env_t ELSE env_t - 1

C19_OneStorePerStep ==
  /\ [](InTrain =>
          /\ replay_buf = SelectSeq(Steps, LAMBDA t : t <= StoredUpTo)
          /\ (main = "returned" /\ cfg.stop_step >= start_step)
               => Len(replay_buf) = cfg.stop_step - start_step + 1
          /\ env_pc = "store" => (env_steps = Len(replay_buf) + 1 /\ env_obs.kind = "step")
          /\ env_pc = "reset" => (env_steps = Len(replay_buf) /\ env_obs.kind = "step"))
  /\ [][(SameProcess /\ replay_buf' # replay_buf) =>
          /\ env_pc = "store" /\ env_pc' \in {"reset", "log"}
          /\ replay_buf' = Append(replay_buf, env_t)
          /\ env_obs = Obs("step", "t", env_t, done)
          /\ nn_pc' = nn_pc]_vars

C19_Witness ==
  /\ main = "returned" /\ start_step = 2 /\ cfg.stop_step = 3
  /\ replay_buf = <<2, 3>> /\ Len(evaled) > 0 /\ Len(trained) > 0

\* C20: every episode end, in the training loop and in eval() alike, is
\* followed by one call of reset(), which is otherwise called only at the
\* start of the loop; reset() runs the model's reset iff learn_started is
\* true when it is called, before the environment's reset, and the caller's
\* observation becomes the one that environment reset returned.
ResetPending == env_pc \in {"reset0", "reset", "eval_reset"}

\* What a step that leaves a reset position has to have done.
ResetDone ==
  /\ reset_calls' = IF learn_started THEN << "model.reset", "_reset", "env.reset" >>
                                     ELSE << "env.reset" >>
  /\ env_obs'.kind = "reset" /\ env_obs' # env_obs
  /\ IF env_pc = "eval_reset" THEN eval_obs' = env_obs' /\ obs' = obs
                              ELSE obs' = env_obs' /\ eval_obs' = eval_obs
  /\ env_pc' \notin {"reset0", "reset", "eval_reset"}

C20_ResetPerEpisode ==
  /\ [](env_pc = "reset" => (done /\ env_obs = Obs("step", "t", env_t, TRUE)))
  /\ [](env_pc = "eval_reset" => env_obs = Obs("step", "e", eval_t, TRUE))
  /\ [][(env_pc = "store" /\ env_pc' # env_pc) => (env_pc' = "reset" <=> done)]_vars
  /\ [][(env_pc = "eval_step" /\ env_pc' # env_pc)
          => (env_pc' = "eval_reset" <=> env_obs'.done)]_vars
  /\ [][(ResetPending /\ env_pc' # env_pc) => ResetDone]_vars
  /\ [][(SameProcess /\ reset_calls' # reset_calls /\ reset_calls' # << >>)
          => ResetPending]_vars

C20_Witness ==
  /\ FreshRun /\ env_pc = "log" /\ env_t = 2
  /\ reset_calls = << "model.reset", "_reset", "env.reset" >>
  /\ obs = Obs("reset", "t", 2, FALSE) /\ Len(evaled) > 0

\* C21: the monitor is in evaluation mode exactly while eval() is executing
\* and in train mode again when eval() has returned: every env.step and every
\* log of the training loop and every monitor save happen in train mode.
C21_MonitorMode ==
  InTrain =>
    /\ mode = "e" <=> env_pc \in {"eval_act", "eval_step", "eval_reset", "eval_end"}
    /\ env_pc \in {"choose", "signal", "inc", "step", "store", "reset", "log"} => mode = "t"
    /\ env_pc \in {"store", "reset"} => env_obs.mode = "t"
    /\ nn_pc \in {"save_mon", "save_model"} => mode = "t"
    /\ main = "returned" => mode = "t"

C21_Witness ==
  /\ InTrain /\ env_pc = "store" /\ mode = "t" /\ env_obs.mode = "t"
  /\ Len(evaled) = 3 /\ evaled[3].t = env_t /\ nn_pc = "save_mon"

\* C22: an agent whose configuration breaks the stated constraints
\* (stop_step <= start_train, a negative value, a zero train_freq or a zero
\* eval_freq that is used as a modulus) is rejected at construction: no such
\* configuration reaches train().
ValidConfig(c) ==
  /\ c.stop_step > c.start_train /\ c.start_train >= 0
  /\ c.train_freq > 0 /\ c.update_target_freq > 0 /\ c.save_freq >= 0
  /\ c.eval_freq >= 0 /\ (c.eval_len > 0 => c.eval_freq > 0)

C22_InvalidConfigRejected == InTrain => ValidConfig(cfg)

\* C23: for a fixed configuration, whether the action of a loop step is random
\* or the model's, and whether a reset() notifies the model, is the same in
\* every interleaving: the environment thread is never about to read
\* learn_started (at the choice of an action or in reset()) while the network
\* thread is about to change it, a state whose two orders give two outcomes.
LearnStartedWritePending ==
  /\ nn_pc = "check" /\ ~learn_started
  /\ nn_t >= cfg.start_train /\ nn_t % cfg.train_freq = 0

LearnStartedReadPending == env_pc \in {"choose", "reset0", "reset", "eval_reset"}

C23_ModeIndependentOfInterleaving ==
  InTrain => ~(LearnStartedReadPending /\ LearnStartedWritePending)

\* C24: at every step of the training loop the observation the action is
\* chosen for, and that is stored with the transition, is what the shared
\* environment returned last (by a reset or a step), also at the first step
\* after an evaluation pass.
C24_ObservationFresh ==
  InTrain => (env_pc \in {"choose", "signal", "inc", "step"} => obs = env_obs)

\* C25: while both loops of train() run, the loop indices of the two threads
\* differ by at most 1; the action of a step is chosen only after train_done
\* of the step before has been signalled (by train() for the first step), and
\* a gradient update of step t runs only after the action of step t has been
\* chosen.
Signalled(ev, t) == \E i \in DOMAIN sigs : sigs[i].ev = ev /\ sigs[i].t = t

C25_Lockstep ==
  (InTrain /\ env_pc \notin {"idle", "reset0"} /\ nn_pc \notin {"idle", "start"}) =>
    /\ env_t - nn_t \in {-1, 0, 1}
    /\ env_pc \in {"choose", "signal", "inc", "step", "store", "reset", "log"} =>
         Signalled("train_done", IF env_t = start_step THEN 0 ELSE env_t - 1)
    /\ nn_pc \in {"train", "sync"} => Signalled("action_chosen", nn_t)
    /\ \A i \in DOMAIN trained : Signalled("action_chosen", trained[i])

C25_Witness ==
  /\ InTrain /\ env_pc = "wait" /\ env_t = 3 /\ nn_pc = "train" /\ nn_t = 2
  /\ Len(replay_buf) = 2 /\ ~train_done

\* The network thread holds the feed of a training step of a fresh run.
FeedTaken ==
  /\ FreshRun /\ nn_pc \in {"wait", "clear", "train"}
  /\ nn_t >= cfg.start_train /\ nn_t % cfg.train_freq = 0

\* C26, as claimed: in a fresh run the replay buffer sampled for training step
\* t holds the transitions of the steps 1..t-2, possibly that of t-1, and never
\* that of t or a later step: between t-2 and t-1 transitions.
C26_FeedWindowClaimed ==
  FeedTaken => (feed >= nn_t - 2 /\ feed <= nn_t - 1)

\* C26, amended: in a fresh run the replay buffer sampled for training step t
\* holds the transitions of the steps 1..t-2, possibly those of t-1 and of t,
\* and never that of a step after t: between t-2 and t transitions, in step
\* order.
C26_FeedWindow ==
  /\ FeedTaken => (feed >= nn_t - 2 /\ feed <= nn_t)
  /\ (FreshRun /\ nn_pc = "feed") =>
       /\ Len(replay_buf) >= nn_t - 2 /\ Len(replay_buf) <= nn_t
       /\ \A i \in DOMAIN replay_buf : replay_buf[i] = i

C26_Witness ==
  /\ FeedTaken /\ nn_pc = "wait" /\ nn_t = 2 /\ feed = 2
  /\ env_pc = "wait" /\ env_t = 3 /\ act_chosen

\* C27: the environment thread never calls into the model (train-time or
\* evaluation action, or the model reset of reset(), the one at the start of
\* _run_env included) while the network thread runs a gradient update, a
\* target synchronisation or a checkpoint save.
EnvCallsModel ==
  \/ env_pc = "choose" /\ learn_started
  \/ env_pc = "eval_act"
  \/ env_pc \in {"reset0", "reset", "eval_reset"} /\ learn_started

NNUpdatesOrSaves == nn_pc \in {"train", "sync", "save_mon", "save_model"}

C27_ModelCallsExclusive == ~(EnvCallsModel /\ NNUpdatesOrSaves)

====
